---------------------------- MODULE Spec2Model ----------------------------
(***************************************************************************)
(* Model of the per-host task daemon of ai-protocol-client                 *)
(* (src/ai-server-daemon.py, class AIServerDaemon).                        *)
(*                                                                         *)
(* Host state shared by every daemon process of one workspace: the task    *)
(* record files (disk), the tmux sessions (session, sent), the task log    *)
(* files (log) and the lock file (lock_path, inode_pid, inode_lock).       *)
(* Per daemon process: its position in start()/shutdown() (phase), its     *)
(* lock file descriptor (lock_fd), its in-memory map (tasks), its queue    *)
(* (task_queue) and the position of each worker thread inside              *)
(* execute_task (wpc, wtask, worphan), of a caller inside create_task      *)
(* (cpc) and of the monitor thread (heartbeat).                            *)
(*                                                                         *)
(* Time is a bounded integer clock; one unit stands for the timeout of the *)
(* tool 'crush' (1800 s), so the fallback timeout (3600 s) is 2 units; the *)
(* retention window is scaled to 1 unit.                                   *)
(***************************************************************************)
EXTENDS Integers, Sequences, FiniteSets, TLC

(***************************************************************************)
(* Bounds of the model.                                                    *)
(***************************************************************************)
MaxTasks == 2
MaxTime == 3
MaxLogLen == 1
MaxPrinted == 2
NumDaemons == 2

(***************************************************************************)
(* Program constants (load_config defaults), scaled to the model's clock.  *)
(***************************************************************************)
max_concurrent_tasks == 1
tool_timeout == 1
default_timeout == 2
log_retention_days == 1
ErrorLimit == 500

TaskIds == 1..MaxTasks
Daemons == 1..NumDaemons
Workers == 1..max_concurrent_tasks
Times == 0..MaxTime
Inodes == 1..(NumDaemons + 1)

\* Python's None for a timestamp, a message, a task-level timeout.
NoTime == -1
NoMsg == [s |-> "None", n |-> 0]
NoTimeout == 0

\* The keys of config['ai_tools'] the model uses: 'crush' as load_config
\* defines it, and 'custom', a tool of the workspace's daemon.json that is
\* configured without a timeout.
ai_tools == {"crush", "custom"}

\* self.config['ai_tools'][tool].get('timeout'): NoTimeout when the key is
\* not there.
configured_timeout(tool) == IF tool = "crush" THEN tool_timeout ELSE NoTimeout

Terminal == {"completed", "failed"}

(***************************************************************************)
(* A task record (create_task's dict).  Absent stands for "no entry in the *)
(* map" / "no record file".                                                *)
(***************************************************************************)
Absent ==
    [status |-> "absent", tool |-> "None", command |-> "None", timeout |-> NoTimeout,
     priority |-> "None",
     progress |-> 0, started_at |-> NoTime, completed_at |-> NoTime,
     error_message |-> NoMsg, pid |-> 0]

NewTask(req) ==
    [status |-> "queued", tool |-> req.tool, command |-> req.command,
     timeout |-> req.timeout, priority |-> req.priority, progress |-> 0, started_at |-> NoTime,
     completed_at |-> NoTime, error_message |-> NoMsg, pid |-> 0]

Msg(s) == [s |-> s, n |-> Len(s)]

\* A record file json.load cannot parse: empty or cut short.  save_task's
\* open(task_file, 'w') leaves the file so until json.dump has written the
\* dict; the other fields are those of the dict being dumped.
Unparsable(task) == [task EXCEPT !.status = "unparsable"]

\* A record file that parses and has an 'id' but no 'status' key.
NoStatus(task) == [task EXCEPT !.status = "nostatus"]

\* The submissions the model draws: a valid one, an unknown tool, a missing
\* tool, a missing command.
Requests ==
    { [tool |-> "crush", command |-> "run", timeout |-> NoTimeout, priority |-> "medium"],
      [tool |-> "bogus", command |-> "run", timeout |-> NoTimeout, priority |-> "medium"],
      [tool |-> "None", command |-> "run", timeout |-> NoTimeout, priority |-> "medium"],
      [tool |-> "crush", command |-> "None", timeout |-> NoTimeout, priority |-> "medium"] }

\* Submissions that matter when time passes: a task-level timeout above the
\* tool's, a tool without timeout, a task-level timeout below the default.
TimedRequests ==
    { [tool |-> "crush", command |-> "run", timeout |-> 2, priority |-> "medium"],
      [tool |-> "custom", command |-> "run", timeout |-> NoTimeout, priority |-> "medium"],
      [tool |-> "custom", command |-> "run", timeout |-> 1, priority |-> "medium"] }

\* Submissions that differ in 'priority' alone.
PriorityRequests ==
    { [tool |-> "crush", command |-> "run", timeout |-> NoTimeout, priority |-> p] :
          p \in {"low", "high"} }

\* A validate_task that does not look the tool up in the tool table.
validate_fields_only(task) ==
    /\ task.tool # "None"
    /\ task.command # "None"

validate_task(task) ==
    /\ task.tool # "None"
    /\ task.command # "None"
    /\ task.tool \in ai_tools

(***************************************************************************)
(* Log files.  A log file is missing, unreadable (open/read/decode raises) *)
(* or holds lines.  A line is described by what the daemon's patterns can  *)
(* see in it:                                                              *)
(*   okid, okts   '[TASK_COMPLETED:<okid>:<okts>]' (okid = 0: none;        *)
(*                okts = NoTime: the closing bracket is missing)           *)
(*   failid       '[TASK_FAILED:<failid>:' (0: none)                       *)
(*   kw           one of the words error/failed/exception, in any case     *)
(*   txt          the line's text, for the error message                   *)
(*   p1           N of 'Progress: N%'      (NoNum: no match)               *)
(*   p2           N of 'N% complete'       (NoNum: no match)               *)
(*   cur, tot     X, Y of 'Processing ... X of Y' (NoNum: no match)        *)
(***************************************************************************)
NoNum == -1

Line(okid, okts, failid, kw, s) ==
    [okid |-> okid, okts |-> okts, failid |-> failid, kw |-> kw, txt |-> Msg(s),
     p1 |-> NoNum, p2 |-> NoNum, cur |-> NoNum, tot |-> NoNum]

OkLine(t, ts) == Line(t, ts, 0, FALSE, "[TASK_COMPLETED]")
FailLine(t) == Line(0, NoTime, t, FALSE, "[TASK_FAILED]")
ErrLine == Line(0, NoTime, 0, TRUE, "Error: boom")
EchoLine(t, ts) == Line(t, ts, t, FALSE, "cmd && echo '[TASK_COMPLETED]' || echo '[TASK_FAILED]'")

\* A line with a keyword that is longer than the error message may be.
LongErrLine ==
    [ErrLine EXCEPT !.txt = [s |-> "Traceback ... Exception", n |-> ErrorLimit + 100]]

\* 'Progress: <n>%'
ProgressLine(n) ==
    [Line(0, NoTime, 0, FALSE, "Progress: n%") EXCEPT !.p1 = n]

\* 'Processing file <cur> of <tot>'
ProcessingLine(cur, tot) ==
    [Line(0, NoTime, 0, FALSE, "Processing file cur of tot") EXCEPT !.cur = cur, !.tot = tot]

MissingLog == [state |-> "missing", lines |-> << >>]
UnreadableLog == [state |-> "unreadable", lines |-> << >>]
EmptyLog == [state |-> "ok", lines |-> << >>]

\* f'[TASK_COMPLETED:{task_id}:' in log_content
HasSuccess(lines, t) == \E i \in 1..Len(lines) : lines[i].okid = t

\* f'[TASK_FAILED:{task_id}:' in log_content
HasFailure(lines, t) == \E i \in 1..Len(lines) : lines[i].failid = t

\* A keyword test that does not see the word 'failed' in the failure
\* sentinel.
HasKeywordOutsideSentinel(l) == l.kw

\* any(keyword in line.lower() for keyword in ['error', 'failed', 'exception']):
\* the failure sentinel itself contains the word 'failed'.
HasKeyword(l) == l.kw \/ l.failid # 0

Min(a, b) == IF a < b THEN a ELSE b

\* error_lines[-1][:500]
Truncate(m) == [s |-> m.s, n |-> Min(m.n, ErrorLimit)]

\* re.search(f'\\[TASK_COMPLETED:{task_id}:([^\\]]+)\\]', log_content): the
\* first sentinel of the task whose bracket is closed; NoTime when none is.
CompletionStamp(lines, t) ==
    LET hits == { i \in 1..Len(lines) : lines[i].okid = t /\ lines[i].okts # NoTime }
    IN  IF hits = {} THEN NoTime
        ELSE lines[CHOOSE i \in hits : \A j \in hits : i <= j].okts

\* The first element where the code takes the last one.
FirstIndex(S) == CHOOSE i \in S : \A j \in S : i <= j

LastIndex(S) == CHOOSE i \in S : \A j \in S : j <= i

\* int((current / total) * 100) in floating point: below the exact quotient
\* by one on the pairs whose product rounds down.
FloatShort == { <<29, 100>>, <<57, 100>>, <<58, 100>> }

Percent(cur, tot) ==
    IF <<cur, tot>> \in FloatShort THEN ((cur * 100) \div tot) - 1
    ELSE (cur * 100) \div tot

extract_progress_from_logs(task, lines) ==
    LET m1 == { i \in 1..Len(lines) : lines[i].p1 # NoNum }
        m2 == { i \in 1..Len(lines) : lines[i].p2 # NoNum }
        m3 == { i \in 1..Len(lines) : lines[i].cur # NoNum /\ lines[i].tot # NoNum }
    IN  IF m1 # {} THEN [task EXCEPT !.progress = lines[LastIndex(m1)].p1]
        ELSE IF m2 # {} THEN [task EXCEPT !.progress = lines[LastIndex(m2)].p2]
        ELSE IF m3 # {} /\ lines[LastIndex(m3)].tot # 0
             THEN [task EXCEPT !.progress =
                       Percent(lines[LastIndex(m3)].cur, lines[LastIndex(m3)].tot)]
        ELSE task

\* A finalize_task_from_logs that looks for the failure sentinel first.
finalize_failure_first(task, t, logv, clock) ==
    IF logv.state # "ok"
    THEN [task EXCEPT !.status = "failed",
                      !.error_message = Msg("Log file not found"),
                      !.completed_at = clock]
    ELSE IF HasFailure(logv.lines, t)
    THEN [task EXCEPT !.status = "failed", !.completed_at = clock]
    ELSE IF HasSuccess(logv.lines, t)
    THEN [task EXCEPT !.status = "completed", !.progress = 100, !.completed_at = clock]
    ELSE [task EXCEPT !.status = "failed",
                      !.error_message = Msg("Task ended without completion marker"),
                      !.completed_at = clock]

\* A finalize_task_from_logs that takes an ended session without a failure
\* sentinel for a success.
finalize_silence_succeeds(task, t, logv, clock) ==
    IF logv.state # "ok"
    THEN [task EXCEPT !.status = "failed",
                      !.error_message = Msg("Log file not found"),
                      !.completed_at = clock]
    ELSE IF HasFailure(logv.lines, t) /\ ~HasSuccess(logv.lines, t)
    THEN [task EXCEPT !.status = "failed", !.completed_at = clock]
    ELSE [task EXCEPT !.status = "completed", !.progress = 100, !.completed_at = clock]

\* The record finalize_task_from_logs leaves in memory and saves.
finalize_task_from_logs(task, t, logv, clock) ==
    IF logv.state = "unreadable"
    THEN [task EXCEPT !.status = "failed",
                      !.error_message = Msg("Finalization error"),
                      !.completed_at = clock]
    ELSE IF logv.state = "missing"
    THEN [task EXCEPT !.status = "failed",
                      !.error_message = Msg("Log file not found"),
                      !.completed_at = clock]
    ELSE LET lines == logv.lines
             kws == { i \in 1..Len(lines) : HasKeyword(lines[i]) }
             stamp == CompletionStamp(lines, t)
             marked ==
                 IF HasSuccess(lines, t)
                 THEN [task EXCEPT !.status = "completed",
                                   !.progress = 100,
                                   !.completed_at =
                                       IF stamp # NoTime THEN stamp ELSE clock]
                 ELSE IF HasFailure(lines, t)
                 THEN [task EXCEPT !.status = "failed",
                                   !.error_message =
                                       IF kws # {}
                                       THEN Truncate(lines[LastIndex(kws)].txt)
                                       ELSE @,
                                   !.completed_at = clock]
                 ELSE [task EXCEPT !.status = "failed",
                                   !.error_message =
                                       Msg("Task ended without completion marker"),
                                   !.completed_at = clock]
         IN  extract_progress_from_logs(marked, lines)

(***************************************************************************)
(* State.                                                                  *)
(***************************************************************************)
VARIABLES
    now,         \* datetime.now(), in clock units
    next_id,     \* the next unused task id (ids are unique by construction)
    disk,        \* tasks/<id>.json: the record saved last, or Absent
    session,     \* tmux has-session -t ai-<id>
    sent,        \* the timestamp inside the marker command typed into the
                 \* session (NoTime: the invocation has not been sent)
    typed,       \* the lines 'tmux send-keys' has typed into the session
    log,         \* logs/<id>.log
    dispatches,  \* how many times 'tmux new-session' was run for the id
    lock_path,   \* the inode linked at pid/daemon.lock (0: no such file)
    inode_pid,   \* the content of each lock inode (0: empty)
    inode_lock,  \* the process holding flock on each inode (0: nobody)
    phase,       \* where each daemon process is in start()/shutdown()
    lock_fd,     \* self.lock_fd: the inode the process has open (0: None)
    tasks,       \* self.tasks
    task_queue,  \* self.task_queue
    wpc,         \* where each worker thread is inside execute_task
    wtask,       \* the task id the worker dequeued (0: none)
    worphan,     \* the dict the worker still holds after cleanup_old_tasks
                 \* deleted it from self.tasks (Absent: the map's entry)
    cpc,         \* the id a create_task call has saved but not yet enqueued
                 \* (0: no call under way; Rejected: the call is raising)
    heartbeat,   \* the parity of the passes the monitor thread has made
    items        \* the ids of self.tasks in the order list(self.tasks.items())
                 \* yields them, kept from a load_tasks that put a record
                 \* without 'status' in the map (<< >> otherwise: the order
                 \* decides nothing then)

hostvars == <<now, next_id, disk, session, sent, typed, log, dispatches>>
lockvars == <<lock_path, inode_pid, inode_lock, lock_fd>>
procvars == <<phase, tasks, task_queue, wpc, wtask, worphan, cpc, heartbeat, items>>
vars == <<now, next_id, disk, session, sent, typed, log, dispatches,
          lock_path, inode_pid, inode_lock, lock_fd,
          phase, tasks, task_queue, wpc, wtask, worphan, cpc, heartbeat, items>>

NoTasks == [t \in TaskIds |-> Absent]
IdleWorkers == [w \in Workers |-> "idle"]
NoWorkerTask == [w \in Workers |-> 0]
NoOrphans == [w \in Workers |-> Absent]

Init ==
    /\ now = 0
    /\ next_id = 1
    /\ disk = NoTasks
    /\ session = [t \in TaskIds |-> FALSE]
    /\ sent = [t \in TaskIds |-> NoTime]
    /\ typed = [t \in TaskIds |-> << >>]
    /\ log = [t \in TaskIds |-> MissingLog]
    /\ dispatches = [t \in TaskIds |-> 0]
    /\ lock_path = 0
    /\ inode_pid = [i \in Inodes |-> 0]
    /\ inode_lock = [i \in Inodes |-> 0]
    /\ phase = [d \in Daemons |-> "down"]
    /\ lock_fd = [d \in Daemons |-> 0]
    /\ tasks = [d \in Daemons |-> NoTasks]
    /\ task_queue = [d \in Daemons |-> << >>]
    /\ wpc = [d \in Daemons |-> IdleWorkers]
    /\ wtask = [d \in Daemons |-> NoWorkerTask]
    /\ worphan = [d \in Daemons |-> NoOrphans]
    /\ cpc = [d \in Daemons |-> 0]
    /\ heartbeat = [d \in Daemons |-> 0]
    /\ items = [d \in Daemons |-> << >>]

\* The process is gone: its memory and its threads with it.
ProcessExit(d) ==
    /\ phase' = [phase EXCEPT ![d] = "down"]
    /\ tasks' = [tasks EXCEPT ![d] = NoTasks]
    /\ task_queue' = [task_queue EXCEPT ![d] = << >>]
    /\ wpc' = [wpc EXCEPT ![d] = IdleWorkers]
    /\ wtask' = [wtask EXCEPT ![d] = NoWorkerTask]
    /\ worphan' = [worphan EXCEPT ![d] = NoOrphans]
    /\ cpc' = [cpc EXCEPT ![d] = 0]
    /\ heartbeat' = [heartbeat EXCEPT ![d] = 0]
    /\ items' = [items EXCEPT ![d] = << >>]

(***************************************************************************)
(* The lock file.  An inode lives while it is linked or open; the kernel   *)
(* drops a flock when the descriptor holding it is closed.                 *)
(***************************************************************************)
InUse(i, path, fds) == path = i \/ \E d \in Daemons : fds[d] = i

Scrub(f, path, fds) == [i \in Inodes |-> IF InUse(i, path, fds) THEN f[i] ELSE 0]

FreeInode == CHOOSE i \in Inodes :
                 /\ ~InUse(i, lock_path, lock_fd)
                 /\ \A j \in Inodes : ~InUse(j, lock_path, lock_fd) => i <= j

\* acquire_lock, first half: open(self.lock_file, 'w') creates or truncates.
StartOpen(d) ==
    /\ phase[d] = "down"
    /\ LET i == IF lock_path # 0 THEN lock_path ELSE FreeInode
       IN  /\ lock_path' = i
           /\ lock_fd' = [lock_fd EXCEPT ![d] = i]
           /\ inode_pid' = [inode_pid EXCEPT ![i] = 0]
    /\ phase' = [phase EXCEPT ![d] = "opened"]
    /\ UNCHANGED <<inode_lock, tasks, task_queue, wpc, wtask, worphan, cpc, heartbeat, items>>
    /\ UNCHANGED hostvars

\* acquire_lock, second half: flock(LOCK_EX | LOCK_NB), then write the pid.
\* When the lock is taken start() returns False and the process ends.
StartLock(d) ==
    /\ phase[d] = "opened"
    /\ IF inode_lock[lock_fd[d]] = 0
       THEN /\ inode_lock' = [inode_lock EXCEPT ![lock_fd[d]] = d]
            /\ inode_pid' = [inode_pid EXCEPT ![lock_fd[d]] = d]
            /\ phase' = [phase EXCEPT ![d] = "locked"]
            /\ UNCHANGED lock_fd
       ELSE /\ lock_fd' = [lock_fd EXCEPT ![d] = 0]
            /\ inode_lock' = Scrub(inode_lock, lock_path, lock_fd')
            /\ inode_pid' = Scrub(inode_pid, lock_path, lock_fd')
            /\ phase' = [phase EXCEPT ![d] = "down"]
    /\ UNCHANGED <<lock_path, tasks, task_queue, wpc, wtask, worphan, cpc, heartbeat, items>>
    /\ UNCHANGED hostvars

(***************************************************************************)
(* Restart recovery.                                                       *)
(***************************************************************************)
\* is_task_running: a record without a pid is not running; otherwise the
\* answer of 'tmux has-session'.
is_task_running(task, t) ==
    IF task.pid = 0 THEN FALSE ELSE session[t]

\* What load_tasks makes of one record file.
Recovered(task, t) ==
    IF task.status = "running" /\ ~is_task_running(task, t)
    THEN [task EXCEPT !.status = "failed",
                      !.error_message = Msg("Process died unexpectedly"),
                      !.completed_at = now]
    ELSE task

\* A load_tasks that re-queues every unfinished record, running ones too.
RequeuedUnfinished == { t \in TaskIds : disk[t].status \in {"queued", "running"} }

\* The ids load_tasks puts on the queue.
Requeued == { t \in TaskIds : disk[t].status = "queued" }

\* tasks_dir.glob('*.json') yields the files in an order of the file
\* system's choosing.
Orderings(S) ==
    { q \in [1..Cardinality(S) -> S] : \A i, j \in 1..Cardinality(S) : q[i] = q[j] => i = j }

\* The files tasks_dir.glob('*.json') yields.
RecordFiles == { t \in TaskIds : disk[t].status # "absent" }

\* What load_tasks leaves in the map for one record file: nothing when
\* json.load raises; the record, 'status' or not, when it parses, for
\* self.tasks[task['id']] = task comes before task['status'] is read.
Loaded(task, t) ==
    IF task.status = "unparsable" THEN Absent ELSE Recovered(task, t)

\* load_tasks, the files coming in the order 'order'.
load_tasks(d, order) ==
    /\ tasks' = [tasks EXCEPT ![d] = [t \in TaskIds |-> Loaded(disk[t], t)]]
    /\ disk' = [t \in TaskIds |-> Recovered(disk[t], t)]
    /\ task_queue' = [task_queue EXCEPT ![d] =
                          SelectSeq(order, LAMBDA t : t \in Requeued)]
    /\ items' = [items EXCEPT ![d] =
                     IF \E t \in TaskIds : disk[t].status = "nostatus"
                     THEN SelectSeq(order, LAMBDA t : disk[t].status # "unparsable")
                     ELSE << >>]

\* start(), after acquire_lock succeeded: load_tasks, then the worker and
\* monitor threads are started.
StartLoad(d) ==
    /\ phase[d] = "locked"
    /\ \E order \in Orderings(RecordFiles) : load_tasks(d, order)
    /\ phase' = [phase EXCEPT ![d] = "up"]
    /\ UNCHANGED <<now, next_id, session, sent, typed, log, dispatches>>
    /\ UNCHANGED <<wpc, wtask, worphan, cpc, heartbeat>>
    /\ UNCHANGED lockvars

(***************************************************************************)
(* Shutdown and crash.                                                     *)
(***************************************************************************)
\* signal_handler -> shutdown(): self.running = False.  The joins that
\* follow wait at most 5 s per thread, so the lock may be released while a
\* worker is still inside execute_task.
Shutdown(d) ==
    /\ phase[d] = "up"
    /\ phase' = [phase EXCEPT ![d] = "stopping"]
    /\ UNCHANGED <<tasks, task_queue, wpc, wtask, worphan, cpc, heartbeat, items>>
    /\ UNCHANGED hostvars
    /\ UNCHANGED lockvars

\* release_lock, first half: flock(LOCK_UN) and close.
ReleaseUnlock(d) ==
    /\ phase[d] = "stopping"
    /\ lock_fd' = [lock_fd EXCEPT ![d] = 0]
    /\ inode_lock' = Scrub([inode_lock EXCEPT ![lock_fd[d]] = 0], lock_path, lock_fd')
    /\ inode_pid' = Scrub(inode_pid, lock_path, lock_fd')
    /\ phase' = [phase EXCEPT ![d] = "released"]
    /\ UNCHANGED <<lock_path, tasks, task_queue, wpc, wtask, worphan, cpc, heartbeat, items>>
    /\ UNCHANGED hostvars

\* release_lock, second half: unlink whatever file is at the lock path;
\* then shutdown() returns and the process exits.
ReleaseUnlink(d) ==
    /\ phase[d] = "released"
    /\ lock_path' = 0
    /\ inode_lock' = Scrub(inode_lock, 0, lock_fd)
    /\ inode_pid' = Scrub(inode_pid, 0, lock_fd)
    /\ ProcessExit(d)
    /\ UNCHANGED lock_fd
    /\ UNCHANGED hostvars

\* release_lock, second half, when shutdown() was called by signal_handler:
\* the lock file is unlinked and shutdown() returns into the handler, which
\* calls sys.exit(0).  The process is still there: SystemExit is raised in
\* the main loop of start(), inside its try.
ReleaseUnlinkReturn(d) ==
    /\ phase[d] = "released"
    /\ lock_path' = 0
    /\ inode_lock' = Scrub(inode_lock, 0, lock_fd)
    /\ inode_pid' = Scrub(inode_pid, 0, lock_fd)
    /\ phase' = [phase EXCEPT ![d] = "exiting"]
    /\ UNCHANGED <<lock_fd, tasks, task_queue, wpc, wtask, worphan, cpc, heartbeat, items>>
    /\ UNCHANGED hostvars

\* start()'s 'finally: self.shutdown()' on the SystemExit: release_lock
\* runs again.  self.lock_fd is still the file object closed by the first
\* call, which is truthy, so 'if self.lock_fd:' passes and fileno() on the
\* closed file raises ValueError before anything is unlocked or unlinked.
ShutdownAgain(d) ==
    /\ phase[d] = "exiting"
    /\ phase' = [phase EXCEPT ![d] = "raised"]
    /\ UNCHANGED <<tasks, task_queue, wpc, wtask, worphan, cpc, heartbeat, items>>
    /\ UNCHANGED hostvars
    /\ UNCHANGED lockvars

\* The ValueError leaves start() uncaught: the process ends with a
\* traceback.
UncaughtExit(d) ==
    /\ phase[d] = "raised"
    /\ ProcessExit(d)
    /\ UNCHANGED hostvars
    /\ UNCHANGED lockvars

\* The process is killed at any point: the kernel closes its descriptor
\* (dropping its flock); the lock file, the records, the sessions stay.
Crash(d) ==
    /\ phase[d] # "down"
    /\ lock_fd' = [lock_fd EXCEPT ![d] = 0]
    /\ inode_lock' = Scrub([i \in Inodes |-> IF inode_lock[i] = d THEN 0 ELSE inode_lock[i]],
                           lock_path, lock_fd')
    /\ inode_pid' = Scrub(inode_pid, lock_path, lock_fd')
    /\ ProcessExit(d)
    /\ UNCHANGED lock_path
    /\ UNCHANGED hostvars

(***************************************************************************)
(* The facade: create_task and kill_task.                                  *)
(***************************************************************************)
\* self.tasks[task_id] = task: a new key comes last in the dict's order.
Inserted(order, t) == IF order = << >> THEN order ELSE Append(order, t)

\* A create_task that puts the id on the queue before the record is saved
\* and entered in the map.
CreateTaskEnqueueFirst(d, req) ==
    /\ phase[d] = "up"
    /\ cpc[d] = 0
    /\ next_id <= MaxTasks
    /\ IF validate_task(NewTask(req))
       THEN /\ task_queue' = [task_queue EXCEPT ![d] = Append(@, next_id)]
            /\ cpc' = [cpc EXCEPT ![d] = next_id]
            /\ next_id' = next_id + 1
            /\ UNCHANGED <<disk, tasks>>
       ELSE UNCHANGED <<disk, tasks, cpc, next_id, task_queue>>
    /\ UNCHANGED <<now, session, sent, typed, log, dispatches>>
    /\ UNCHANGED <<phase, wpc, wtask, worphan, heartbeat, items>>
    /\ UNCHANGED lockvars

\* The position of a create_task call that is raising ValueError.
Rejected == -1

\* create_task up to self.tasks[task_id] = task: the record is validated,
\* saved and put in the map.  An invalid request raises before any of it.
CreateTask(d, req) ==
    /\ phase[d] = "up"
    /\ cpc[d] = 0
    /\ next_id <= MaxTasks
    /\ IF validate_task(NewTask(req))
       THEN /\ disk' = [disk EXCEPT ![next_id] = NewTask(req)]
            /\ tasks' = [tasks EXCEPT ![d][next_id] = NewTask(req)]
            /\ items' = [items EXCEPT ![d] = Inserted(@, next_id)]
            /\ cpc' = [cpc EXCEPT ![d] = next_id]
            /\ next_id' = next_id + 1
       ELSE /\ cpc' = [cpc EXCEPT ![d] = Rejected]
            /\ UNCHANGED <<disk, tasks, next_id, items>>
    /\ UNCHANGED <<now, session, sent, typed, log, dispatches>>
    /\ UNCHANGED <<phase, task_queue, wpc, wtask, worphan, heartbeat>>
    /\ UNCHANGED lockvars

\* create_task on an invalid request: the ValueError reaches the caller.
CreateRaise(d) ==
    /\ phase[d] # "down"
    /\ cpc[d] = Rejected
    /\ cpc' = [cpc EXCEPT ![d] = 0]
    /\ UNCHANGED <<phase, tasks, task_queue, wpc, wtask, worphan, heartbeat, items>>
    /\ UNCHANGED hostvars
    /\ UNCHANGED lockvars

\* A queue that hands out the id put last.
put_first(q, t) == <<t>> \o q

\* queue.Queue().put: the id goes to the end of the queue.
put(q, t) == Append(q, t)

\* create_task, last step: self.task_queue.put(task_id).
CreateEnqueue(d) ==
    /\ phase[d] # "down"
    /\ cpc[d] \in TaskIds
    /\ task_queue' = [task_queue EXCEPT ![d] = put(@, cpc[d])]
    /\ cpc' = [cpc EXCEPT ![d] = 0]
    /\ UNCHANGED <<phase, tasks, wpc, wtask, worphan, heartbeat, items>>
    /\ UNCHANGED hostvars
    /\ UNCHANGED lockvars

\* The 'create-task' command: a process of its own builds an AIServerDaemon,
\* calls create_task and exits; its map and its queue are gone with it.
CliCreateTask(req) ==
    /\ next_id <= MaxTasks
    /\ validate_task(NewTask(req))
    /\ disk' = [disk EXCEPT ![next_id] = NewTask(req)]
    /\ next_id' = next_id + 1
    /\ UNCHANGED <<now, session, sent, typed, log, dispatches>>
    /\ UNCHANGED procvars
    /\ UNCHANGED lockvars

\* The 'create-task' command's save_task, first half: open(task_file, 'w')
\* has created the record file and json.dump has written none or a part of
\* the record.
CliSaveOpen(req) ==
    /\ next_id <= MaxTasks
    /\ validate_task(NewTask(req))
    /\ disk' = [disk EXCEPT ![next_id] = Unparsable(NewTask(req))]
    /\ next_id' = next_id + 1
    /\ UNCHANGED <<now, session, sent, typed, log, dispatches>>
    /\ UNCHANGED procvars
    /\ UNCHANGED lockvars

\* The 'create-task' command's save_task, second half: json.dump has
\* written the whole record and the file is closed.
CliSaveDump(t) ==
    /\ disk[t].status = "unparsable"
    /\ disk' = [disk EXCEPT ![t] = [@ EXCEPT !.status = "queued"]]
    /\ UNCHANGED <<now, next_id, session, sent, typed, log, dispatches>>
    /\ UNCHANGED procvars
    /\ UNCHANGED lockvars

\* A record file in tasks/ that the daemon did not write (copied in, edited
\* by hand): it parses and has an 'id', it has no 'status'.
ForeignRecord(req) ==
    /\ next_id <= MaxTasks
    /\ disk' = [disk EXCEPT ![next_id] = NoStatus(NewTask(req))]
    /\ next_id' = next_id + 1
    /\ UNCHANGED <<now, session, sent, typed, log, dispatches>>
    /\ UNCHANGED procvars
    /\ UNCHANGED lockvars

\* The record kill_task leaves in memory and saves.
Killed(task, reason) ==
    [task EXCEPT !.status = "failed",
                 !.error_message = Msg("Task killed: " \o reason),
                 !.completed_at = now]

\* kill_task(task_id): False for an unknown id; otherwise the session is
\* killed and the record rewritten.
KillTask(d, t) ==
    /\ phase[d] = "up"
    /\ IF tasks[d][t].status = "absent"
       THEN UNCHANGED <<session, sent, typed, tasks, disk>>
       ELSE /\ session' = [session EXCEPT ![t] = FALSE]
            /\ sent' = [sent EXCEPT ![t] = NoTime]
            /\ typed' = [typed EXCEPT ![t] = << >>]
            /\ tasks' = [tasks EXCEPT ![d][t] = Killed(@, "manual")]
            /\ disk' = [disk EXCEPT ![t] = Killed(tasks[d][t], "manual")]
    /\ UNCHANGED <<now, next_id, log, dispatches>>
    /\ UNCHANGED <<phase, task_queue, wpc, wtask, worphan, cpc, heartbeat, items>>
    /\ UNCHANGED lockvars

(***************************************************************************)
(* The worker threads: worker() and execute_task.                          *)
(***************************************************************************)
\* One 'tmux send-keys -t <session> <text> Enter': a line typed into the
\* session's shell.  invokes: the line runs the tool's invocation; marker:
\* the line echoes the success sentinel after the invocation if it exits
\* with status 0 and the failure sentinel otherwise ('&& echo' '|| echo').
Key(text, invokes, marker) == [text |-> text, invokes |-> invokes, marker |-> marker]

\* execute_task's log_setup_commands.
log_setup_commands ==
    << Key("mkdir -p logs", FALSE, FALSE),
       Key("exec > >(tee log_file)", FALSE, FALSE),
       Key("exec 2>&1", FALSE, FALSE),
       Key("echo Starting task", FALSE, FALSE) >>

\* tool_config.get('env_setup', [])
env_setup(tool) ==
    IF tool = "crush" THEN << Key("source ~/.bashrc", FALSE, FALSE) >> ELSE << >>

\* build_task_command: 'timeout <n> <base> <command>' when the task or the
\* tool has a timeout, '<base> <command>' otherwise.
build_task_command(task) ==
    IF task.timeout # NoTimeout \/ configured_timeout(task.tool) # NoTimeout
    THEN "timeout n " \o task.tool \o " " \o task.command
    ELSE task.tool \o " " \o task.command

\* The lines execute_task types into the session, in order: log setup,
\* environment setup, the invocation, and the marker line, which holds the
\* invocation again.
send_keys(task) ==
    log_setup_commands
        \o env_setup(task.tool)
        \o << Key(build_task_command(task), TRUE, FALSE),
              Key(build_task_command(task) \o " && echo COMPLETED || echo FAILED",
                  TRUE, TRUE) >>

\* The dict the worker's local variable 'task' refers to.
WorkerRecord(d, w) ==
    IF worphan[d][w].status # "absent" THEN worphan[d][w] ELSE tasks[d][wtask[d][w]]

\* Except branches that record the error and leave the status as it is.
FailedToStartUnmarked(task) ==
    [task EXCEPT !.error_message = Msg("Failed to start"),
                 !.completed_at = now]

\* execute_task's except branches.
FailedToStart(task) ==
    [task EXCEPT !.status = "failed",
                 !.error_message = Msg("Failed to start"),
                 !.completed_at = now]

\* The worker writes 'rec' into its dict and saves it, then returns.
WorkerFails(d, w) ==
    LET t == wtask[d][w]
        rec == FailedToStart(WorkerRecord(d, w))
    IN  /\ disk' = [disk EXCEPT ![t] = rec]
        /\ tasks' = IF worphan[d][w].status # "absent" THEN tasks
                    ELSE [tasks EXCEPT ![d][t] = rec]
        /\ wpc' = [wpc EXCEPT ![d][w] = "idle"]
        /\ wtask' = [wtask EXCEPT ![d][w] = 0]
        /\ worphan' = [worphan EXCEPT ![d][w] = Absent]

\* worker(): task_queue.get, 'if task_id in self.tasks', then execute_task
\* up to its first save: status running, started_at, save_task.
WorkerDequeue(d, w) ==
    /\ phase[d] = "up"
    /\ wpc[d][w] = "idle"
    /\ task_queue[d] # << >>
    /\ LET t == Head(task_queue[d])
       IN  /\ task_queue' = [task_queue EXCEPT ![d] = Tail(@)]
           /\ IF tasks[d][t].status = "absent"
              THEN UNCHANGED <<tasks, disk, wpc, wtask>>
              ELSE LET rec == [tasks[d][t] EXCEPT !.status = "running",
                                                  !.started_at = now]
                   IN  /\ tasks' = [tasks EXCEPT ![d][t] = rec]
                       /\ disk' = [disk EXCEPT ![t] = rec]
                       /\ wpc' = [wpc EXCEPT ![d][w] = "session"]
                       /\ wtask' = [wtask EXCEPT ![d][w] = t]
    /\ UNCHANGED <<now, next_id, session, sent, typed, log, dispatches>>
    /\ UNCHANGED <<phase, worphan, cpc, heartbeat, items>>
    /\ UNCHANGED lockvars

\* execute_task: 'tmux kill-session' of a stale session, then
\* 'tmux new-session' (check=True); ok is whether new-session succeeded.
WorkerSession(d, w, ok) ==
    /\ phase[d] # "down"
    /\ wpc[d][w] = "session"
    /\ LET t == wtask[d][w]
       IN  /\ sent' = [sent EXCEPT ![t] = NoTime]
           /\ typed' = [typed EXCEPT ![t] = << >>]
           /\ IF ok
              THEN /\ session' = [session EXCEPT ![t] = TRUE]
                   /\ dispatches' = [dispatches EXCEPT ![t] = @ + 1]
                   /\ wpc' = [wpc EXCEPT ![d][w] = "send"]
                   /\ UNCHANGED <<disk, tasks, wtask, worphan>>
              ELSE /\ session' = [session EXCEPT ![t] = FALSE]
                   /\ WorkerFails(d, w)
                   /\ UNCHANGED dispatches
    /\ UNCHANGED <<now, next_id, log>>
    /\ UNCHANGED <<phase, task_queue, cpc, heartbeat, items>>
    /\ UNCHANGED lockvars

\* execute_task: the send-keys calls (log setup, env_setup, the invocation
\* and the marker command); they raise when the session is gone.
WorkerSend(d, w) ==
    /\ phase[d] # "down"
    /\ wpc[d][w] = "send"
    /\ LET t == wtask[d][w]
       IN  IF session[t]
           THEN /\ sent' = [sent EXCEPT ![t] = now]
                /\ typed' = [typed EXCEPT ![t] = send_keys(WorkerRecord(d, w))]
                /\ log' = [log EXCEPT ![t] = EmptyLog]
                /\ wpc' = [wpc EXCEPT ![d][w] = "idle"]
                /\ wtask' = [wtask EXCEPT ![d][w] = 0]
                /\ worphan' = [worphan EXCEPT ![d][w] = Absent]
                /\ UNCHANGED <<disk, tasks>>
           ELSE /\ WorkerFails(d, w)
                /\ UNCHANGED <<sent, typed, log>>
    /\ UNCHANGED <<now, next_id, session, dispatches>>
    /\ UNCHANGED <<phase, task_queue, cpc, heartbeat, items>>
    /\ UNCHANGED lockvars

(***************************************************************************)
(* The monitor thread: one pass of monitor_tasks' loop.                    *)
(***************************************************************************)
\* task.get('timeout') or self.config['ai_tools'][task['tool']].get('timeout', 3600)
\* A check_task_completion that goes by the tool's timeout alone.
tool_timeout_only(task) ==
    IF configured_timeout(task.tool) # NoTimeout THEN configured_timeout(task.tool)
    ELSE default_timeout

effective_timeout(task) ==
    IF task.timeout # NoTimeout THEN task.timeout
    ELSE IF configured_timeout(task.tool) # NoTimeout THEN configured_timeout(task.tool)
    ELSE default_timeout

\* check_task_completion kills the task: its session is alive and
\* datetime.now() - started > timeout.
TimedOut(task, t) ==
    /\ session[t]
    /\ task.started_at # NoTime
    /\ now - task.started_at > effective_timeout(task)

\* check_task_completion rewrites and saves the record of a running task.
Touched(task, t) ==
    task.status = "running" /\ (~session[t] \/ TimedOut(task, t))

\* The record check_task_completion leaves in memory.
check_task_completion(task, t) ==
    IF task.status # "running" THEN task
    ELSE IF ~session[t] THEN finalize_task_from_logs(task, t, log[t], now)
    ELSE IF TimedOut(task, t) THEN Killed(task, "timeout")
    ELSE task

\* A cleanup_old_tasks that deletes every terminal task, whatever its age.
ExpiredAnyAge(task) ==
    /\ task.status \in Terminal
    /\ task.completed_at # NoTime

\* cleanup_old_tasks deletes the task: it is terminal and its completed_at
\* is before datetime.now() - timedelta(days=log_retention_days).
Expired(task) ==
    /\ task.status \in Terminal
    /\ task.completed_at # NoTime
    /\ task.completed_at < now - log_retention_days

\* task['status'] raises KeyError for some record of the map: the pass
\* ends in the loop's except branch.
Raises(d) == \E t \in TaskIds : tasks[d][t].status = "nostatus"

\* The pass gets to test task['status'] of t: no record before t in
\* list(self.tasks.items()) lacks 'status'.
Reached(d, t) ==
    \/ ~Raises(d)
    \/ \E i \in 1..Len(items[d]) :
          /\ items[d][i] = t
          /\ \A j \in 1..i : tasks[d][items[d][j]].status # "nostatus"

\* One pass of the loop: check_task_completion for every running task,
\* then cleanup_old_tasks, then the sleep of heartbeat_interval.  A KeyError
\* ends the pass at once, cleanup_old_tasks left out.
MonitorTick(d) ==
    /\ phase[d] = "up"
    /\ heartbeat' = [heartbeat EXCEPT ![d] = 1 - @]
    /\ LET chk == [t \in TaskIds |->
                      IF Reached(d, t) THEN check_task_completion(tasks[d][t], t)
                      ELSE tasks[d][t]]
           hit == { t \in TaskIds : Reached(d, t) /\ Touched(tasks[d][t], t) }
           old == IF Raises(d) THEN {} ELSE { t \in TaskIds : Expired(chk[t]) }
       IN  /\ items' = [items EXCEPT ![d] = SelectSeq(@, LAMBDA t : t \notin old)]
           /\ tasks' = [tasks EXCEPT ![d] =
                           [t \in TaskIds |-> IF t \in old THEN Absent ELSE chk[t]]]
           /\ disk' = [t \in TaskIds |->
                           IF t \in old THEN Absent
                           ELSE IF t \in hit THEN chk[t]
                           ELSE disk[t]]
           /\ log' = [t \in TaskIds |-> IF t \in old THEN MissingLog ELSE log[t]]
           /\ session' = [t \in TaskIds |->
                              IF t \in hit /\ TimedOut(tasks[d][t], t) THEN FALSE
                              ELSE session[t]]
           /\ sent' = [t \in TaskIds |->
                           IF t \in hit /\ TimedOut(tasks[d][t], t) THEN NoTime
                           ELSE sent[t]]
           /\ typed' = [t \in TaskIds |->
                            IF t \in hit /\ TimedOut(tasks[d][t], t) THEN << >>
                            ELSE typed[t]]
           /\ worphan' = [worphan EXCEPT ![d] =
                             [w \in Workers |->
                                 IF wtask[d][w] \in old /\ worphan[d][w].status = "absent"
                                 THEN chk[wtask[d][w]]
                                 ELSE worphan[d][w]]]
    /\ UNCHANGED <<now, next_id, dispatches>>
    /\ UNCHANGED <<phase, task_queue, wpc, wtask, cpc>>
    /\ UNCHANGED lockvars

(***************************************************************************)
(* The host: the clock, the tool running inside a session, and sessions    *)
(* ending for reasons outside the daemon (the client's 'tmux kill-session',*)
(* a reboot).                                                              *)
(***************************************************************************)
Tick ==
    /\ now < MaxTime
    /\ now' = now + 1
    /\ UNCHANGED <<next_id, disk, session, sent, typed, log, dispatches>>
    /\ UNCHANGED procvars
    /\ UNCHANGED lockvars

\* What the invocation and the marker command can write to the log.
\* EchoLine is the marker command itself as the shell echoes it: it holds
\* the text of both sentinels.
ToolLines(t) == { ErrLine, OkLine(t, sent[t]), FailLine(t), EchoLine(t, sent[t]) }

ToolWrites(t, l) ==
    /\ session[t]
    /\ sent[t] # NoTime
    /\ log[t].state = "ok"
    /\ Len(log[t].lines) < MaxLogLen
    /\ log' = [log EXCEPT ![t].lines = Append(@, l)]
    /\ UNCHANGED <<now, next_id, disk, session, sent, typed, dispatches>>
    /\ UNCHANGED procvars
    /\ UNCHANGED lockvars

\* The tool writes bytes that are not valid text: reading the log raises.
ToolGarbage(t) ==
    /\ session[t]
    /\ sent[t] # NoTime
    /\ log[t].state = "ok"
    /\ log' = [log EXCEPT ![t] = UnreadableLog]
    /\ UNCHANGED <<now, next_id, disk, session, sent, typed, dispatches>>
    /\ UNCHANGED procvars
    /\ UNCHANGED lockvars

\* The output of a longer run: the lines of ToolLines, a long line with a
\* keyword, and progress reports.
PrintedLines(t) ==
    ToolLines(t) \cup {LongErrLine, ProgressLine(40), ProgressLine(41), ProgressLine(100),
                       ProgressLine(250), ProcessingLine(7, 5), ProcessingLine(29, 100),
                       ProcessingLine(3, 0)}

ToolPrints(t, l) ==
    /\ session[t]
    /\ sent[t] # NoTime
    /\ log[t].state = "ok"
    /\ Len(log[t].lines) < MaxPrinted
    /\ log' = [log EXCEPT ![t].lines = Append(@, l)]
    /\ UNCHANGED <<now, next_id, disk, session, sent, typed, dispatches>>
    /\ UNCHANGED procvars
    /\ UNCHANGED lockvars

SessionDies(t) ==
    /\ session[t]
    /\ session' = [session EXCEPT ![t] = FALSE]
    /\ sent' = [sent EXCEPT ![t] = NoTime]
    /\ typed' = [typed EXCEPT ![t] = << >>]
    /\ UNCHANGED <<now, next_id, disk, log, dispatches>>
    /\ UNCHANGED procvars
    /\ UNCHANGED lockvars

(***************************************************************************)
(* The specifications.                                                     *)
(*                                                                         *)
(* Spec: the workspace is served by one daemon process at a time (process  *)
(* Primary, restarted after every shutdown or crash), with the full task   *)
(* lifecycle of MaxTasks tasks, within one clock unit (no timeout, no      *)
(* retention sweep falls due).                                             *)
(*                                                                         *)
(* SpecTime: as Spec, with the clock running up to MaxTime and one task,   *)
(* so that timeouts and the retention sweep fall due.                      *)
(*                                                                         *)
(* SpecRace: every process of Daemons may be started against the workspace *)
(* at any time, so that startups overlap with a shutdown; one task,        *)
(* submitted through the 'create-task' command, and no clock.              *)
(*                                                                         *)
(* SpecQuiet: as Spec, with tools that write nothing to their logs, which  *)
(* leaves room for more tasks in creation, dispatch and restart recovery.  *)
(*                                                                         *)
(* SpecClock: as SpecTime, with tools that write nothing to their logs and *)
(* with the submissions of TimedRequests, so that each source of a task's  *)
(* timeout decides.                                                        *)
(*                                                                         *)
(* SpecLog: one task and no clock, with tools that write up to MaxPrinted  *)
(* lines, progress reports and long lines among them.                      *)
(*                                                                         *)
(* SpecFiles: as SpecQuiet, with record files that do not hold a whole     *)
(* record: the file the 'create-task' command is still writing, and a file *)
(* without 'status'.                                                       *)
(*                                                                         *)
(* SpecQueue: as SpecQuiet, with submissions of low and of high priority   *)
(* and without kill_task.                                                  *)
(*                                                                         *)
(* SpecLive: a daemon that is started and keeps running (no shutdown, no   *)
(* crash, no kill_task), with its threads scheduled fairly: a startup step,*)
(* a queue.put, a worker's step or a monitor pass that stays possible is   *)
(* taken in the end.                                                       *)
(***************************************************************************)
Primary == CHOOSE d \in Daemons : \A e \in Daemons : d <= e

Next ==
    \/ StartOpen(Primary)
    \/ StartLock(Primary)
    \/ StartLoad(Primary)
    \/ Shutdown(Primary)
    \/ ReleaseUnlock(Primary)
    \/ ReleaseUnlink(Primary)
    \/ Crash(Primary)
    \/ \E req \in Requests : CreateTask(Primary, req)
    \/ CreateEnqueue(Primary)
    \/ CreateRaise(Primary)
    \/ \E req \in Requests : CliCreateTask(req)
    \/ \E t \in TaskIds : KillTask(Primary, t)
    \/ \E w \in Workers : WorkerDequeue(Primary, w)
    \/ \E w \in Workers, ok \in BOOLEAN : WorkerSession(Primary, w, ok)
    \/ \E w \in Workers : WorkerSend(Primary, w)
    \/ MonitorTick(Primary)
    \/ \E t \in TaskIds : \E l \in ToolLines(t) : ToolWrites(t, l)
    \/ \E t \in TaskIds : ToolGarbage(t)
    \/ \E t \in TaskIds : SessionDies(t)

Spec == Init /\ [][Next]_vars

TimeNext ==
    \/ Tick
    \/ StartOpen(Primary)
    \/ StartLock(Primary)
    \/ StartLoad(Primary)
    \/ Shutdown(Primary)
    \/ ReleaseUnlock(Primary)
    \/ ReleaseUnlink(Primary)
    \/ Crash(Primary)
    \/ \E req \in Requests : next_id = 1 /\ CreateTask(Primary, req)
    \/ CreateEnqueue(Primary)
    \/ CreateRaise(Primary)
    \/ \E req \in Requests : next_id = 1 /\ CliCreateTask(req)
    \/ \E t \in TaskIds : KillTask(Primary, t)
    \/ \E w \in Workers : WorkerDequeue(Primary, w)
    \/ \E w \in Workers, ok \in BOOLEAN : WorkerSession(Primary, w, ok)
    \/ \E w \in Workers : WorkerSend(Primary, w)
    \/ MonitorTick(Primary)
    \/ \E t \in TaskIds : \E l \in ToolLines(t) : ToolWrites(t, l)
    \/ \E t \in TaskIds : ToolGarbage(t)
    \/ \E t \in TaskIds : SessionDies(t)

SpecTime == Init /\ [][TimeNext]_vars

RaceNext ==
    \/ \E d \in Daemons : StartOpen(d)
    \/ \E d \in Daemons : StartLock(d)
    \/ \E d \in Daemons : StartLoad(d)
    \/ \E d \in Daemons : Shutdown(d)
    \/ \E d \in Daemons : ReleaseUnlock(d)
    \/ \E d \in Daemons : ReleaseUnlink(d)
    \/ \E d \in Daemons : Crash(d)
    \/ \E req \in Requests : next_id = 1 /\ CliCreateTask(req)
    \/ \E d \in Daemons, w \in Workers : WorkerDequeue(d, w)
    \/ \E d \in Daemons, w \in Workers, ok \in BOOLEAN : WorkerSession(d, w, ok)
    \/ \E d \in Daemons, w \in Workers : WorkerSend(d, w)
    \/ \E d \in Daemons : MonitorTick(d)
    \/ \E t \in TaskIds : \E l \in ToolLines(t) : ToolWrites(t, l)
    \/ \E t \in TaskIds : SessionDies(t)

SpecRace == Init /\ [][RaceNext]_vars

QuietNext ==
    \/ StartOpen(Primary)
    \/ StartLock(Primary)
    \/ StartLoad(Primary)
    \/ Shutdown(Primary)
    \/ ReleaseUnlock(Primary)
    \/ ReleaseUnlink(Primary)
    \/ Crash(Primary)
    \/ \E req \in Requests : CreateTask(Primary, req)
    \/ CreateEnqueue(Primary)
    \/ CreateRaise(Primary)
    \/ \E req \in Requests : CliCreateTask(req)
    \/ \E t \in TaskIds : KillTask(Primary, t)
    \/ \E w \in Workers : WorkerDequeue(Primary, w)
    \/ \E w \in Workers, ok \in BOOLEAN : WorkerSession(Primary, w, ok)
    \/ \E w \in Workers : WorkerSend(Primary, w)
    \/ MonitorTick(Primary)
    \/ \E t \in TaskIds : SessionDies(t)

SpecQuiet == Init /\ [][QuietNext]_vars

ClockNext ==
    \/ Tick
    \/ StartOpen(Primary)
    \/ StartLock(Primary)
    \/ StartLoad(Primary)
    \/ Shutdown(Primary)
    \/ ReleaseUnlock(Primary)
    \/ ReleaseUnlink(Primary)
    \/ Crash(Primary)
    \/ \E req \in Requests \cup TimedRequests : next_id = 1 /\ CreateTask(Primary, req)
    \/ CreateEnqueue(Primary)
    \/ CreateRaise(Primary)
    \/ \E t \in TaskIds : KillTask(Primary, t)
    \/ \E w \in Workers : WorkerDequeue(Primary, w)
    \/ \E w \in Workers, ok \in BOOLEAN : WorkerSession(Primary, w, ok)
    \/ \E w \in Workers : WorkerSend(Primary, w)
    \/ MonitorTick(Primary)
    \/ \E t \in TaskIds : SessionDies(t)

SpecClock == Init /\ [][ClockNext]_vars

LogNext ==
    \/ StartOpen(Primary)
    \/ StartLock(Primary)
    \/ StartLoad(Primary)
    \/ Shutdown(Primary)
    \/ ReleaseUnlock(Primary)
    \/ ReleaseUnlink(Primary)
    \/ \E req \in Requests : next_id = 1 /\ CreateTask(Primary, req)
    \/ CreateEnqueue(Primary)
    \/ CreateRaise(Primary)
    \/ \E w \in Workers : WorkerDequeue(Primary, w)
    \/ \E w \in Workers, ok \in BOOLEAN : WorkerSession(Primary, w, ok)
    \/ \E w \in Workers : WorkerSend(Primary, w)
    \/ MonitorTick(Primary)
    \/ \E t \in TaskIds : \E l \in PrintedLines(t) : ToolPrints(t, l)
    \/ \E t \in TaskIds : ToolGarbage(t)
    \/ \E t \in TaskIds : SessionDies(t)

SpecLog == Init /\ [][LogNext]_vars

(***************************************************************************)
(* Properties.                                                             *)
(***************************************************************************)
Present(task) == task.status # "absent"

InQueue(q, t) == \E i \in 1..Len(q) : q[i] = t

Occurrences(q, t) == Cardinality({ i \in 1..Len(q) : q[i] = t })

\* C1: terminal states are absorbing: once a task's status is completed or
\* failed, in the daemon's map or in its record file, no step changes that
\* status (the task may only disappear: retention sweep, process exit).
C1_TerminalAbsorbing ==
    [][\A t \in TaskIds :
          /\ \A d \in Daemons :
                (tasks[d][t].status \in Terminal /\ Present(tasks'[d][t]))
                    => tasks'[d][t].status = tasks[d][t].status
          /\ (disk[t].status \in Terminal /\ Present(disk'[t]))
                    => disk'[t].status = disk[t].status]_vars

\* C2: kill_task on a task that is already terminal is a no-op: it leaves
\* status, completed_at and error_message as they were, in memory and on disk.
C2_KillTerminalNoOp ==
    [][\A d \in Daemons, t \in TaskIds :
          (KillTask(d, t) /\ tasks[d][t].status \in Terminal)
              => /\ tasks'[d][t].status = tasks[d][t].status
                 /\ tasks'[d][t].completed_at = tasks[d][t].completed_at
                 /\ tasks'[d][t].error_message = tasks[d][t].error_message
                 /\ disk'[t] = disk[t]]_vars

Running(d) == { t \in TaskIds : tasks[d][t].status = "running" }

\* C3: with max_concurrent_tasks workers, at most max_concurrent_tasks tasks
\* of a daemon have status running at any time.
C3_AtMostNRunning ==
    \A d \in Daemons : Cardinality(Running(d)) <= max_concurrent_tasks

\* C4: create_task makes the task observable, on disk and in the map, with
\* status queued, progress 0 and null started_at/completed_at before its id
\* is on the queue: right after the save the id is on no queue and held by
\* no worker, an id reaches the queue of a running daemon only through that
\* pending create_task call, and until then no worker has touched the task.
C4_ObservableBeforeEnqueue ==
    [][\A d \in Daemons, t \in TaskIds :
          /\ (cpc[d] # t /\ cpc'[d] = t)
                => /\ disk'[t] = tasks'[d][t]
                   /\ tasks'[d][t].status = "queued"
                   /\ tasks'[d][t].progress = 0
                   /\ tasks'[d][t].started_at = NoTime
                   /\ tasks'[d][t].completed_at = NoTime
                   /\ ~InQueue(task_queue'[d], t)
                   /\ \A w \in Workers : wtask'[d][w] # t
          /\ (phase[d] = "up" /\ ~InQueue(task_queue[d], t) /\ InQueue(task_queue'[d], t))
                => cpc[d] = t
          /\ cpc'[d] = t
                => /\ \A w \in Workers : wtask'[d][w] # t
                   /\ tasks'[d][t].status # "running"
                   /\ tasks'[d][t].started_at = NoTime]_vars

\* C4 witness: a create_task call has saved a task and not yet enqueued it,
\* while the worker is busy dispatching another task.
C4_Witness ==
    \E d \in Daemons, t \in TaskIds :
        /\ cpc[d] = t
        /\ tasks[d][t].status = "queued"
        /\ disk[t].status = "queued"
        /\ \E w \in Workers : wpc[d][w] # "idle"

Started == {"running", "completed", "failed"}

TimestampsMatchStatus(task) ==
    /\ task.started_at # NoTime <=> task.status \in Started
    /\ task.completed_at # NoTime <=> task.status \in Terminal

\* C5: for every task, in the map and on disk, started_at is set if and only
\* if the status has reached running or later, and completed_at is set if and
\* only if the status is terminal.
C5_TimestampsMatchStatus ==
    \A t \in TaskIds :
        /\ \A d \in Daemons : Present(tasks[d][t]) => TimestampsMatchStatus(tasks[d][t])
        /\ Present(disk[t]) => TimestampsMatchStatus(disk[t])

Allowed == { <<"queued", "running">>, <<"running", "completed">>, <<"running", "failed">> }

\* C6: every change of a task's status, in the map and on disk, is one of
\* queued -> running, running -> completed, running -> failed: no step takes
\* a task to a terminal state that was not running, and none takes it back.
C6_StatusOrder ==
    [][\A t \in TaskIds :
          /\ \A d \in Daemons :
                (Present(tasks[d][t]) /\ Present(tasks'[d][t])
                    /\ tasks'[d][t].status # tasks[d][t].status)
                    => <<tasks[d][t].status, tasks'[d][t].status>> \in Allowed
          /\ (Present(disk[t]) /\ Present(disk'[t]) /\ disk'[t].status # disk[t].status)
                    => <<disk[t].status, disk'[t].status>> \in Allowed]_vars

\* The step in which start() runs load_tasks.
Recovers(d) == phase[d] = "locked" /\ phase'[d] = "up"

\* C7: restart recovery: a record found running whose session is gone is
\* failed with 'Process died unexpectedly' and a completed_at, saved and not
\* enqueued; a record found queued is loaded as it is and its id is on the
\* queue exactly once.
C7_RestartRecovery ==
    [][\A d \in Daemons, t \in TaskIds :
          Recovers(d) =>
              /\ (disk[t].status = "running" /\ ~session[t])
                    => /\ tasks'[d][t].status = "failed"
                       /\ tasks'[d][t].error_message = Msg("Process died unexpectedly")
                       /\ tasks'[d][t].completed_at = now
                       /\ tasks'[d][t].completed_at # NoTime
                       /\ disk'[t] = tasks'[d][t]
                       /\ ~InQueue(task_queue'[d], t)
              /\ disk[t].status = "queued"
                    => /\ tasks'[d][t] = disk[t]
                       /\ disk'[t] = disk[t]
                       /\ Occurrences(task_queue'[d], t) = 1]_vars

\* C7 witness: a daemon is up after a recovery that failed one task as died
\* while another task, found queued, waits on its queue.
C7_Witness ==
    \E d \in Daemons, t, u \in TaskIds :
        /\ phase[d] = "up"
        /\ tasks[d][t].status = "failed"
        /\ tasks[d][t].error_message = Msg("Process died unexpectedly")
        /\ disk[t] = tasks[d][t]
        /\ tasks[d][u].status = "queued"
        /\ Occurrences(task_queue[d], u) = 1
        /\ ~InQueue(task_queue[d], t)

\* C8: restart recovery leaves a record found running alone when its session
\* is still alive: after load_tasks it is still running and not enqueued.
C8_LiveSessionStaysRunning ==
    [][\A d \in Daemons, t \in TaskIds :
          (Recovers(d) /\ disk[t].status = "running" /\ session[t])
              => /\ tasks'[d][t].status = "running"
                 /\ disk'[t].status = "running"
                 /\ ~InQueue(task_queue'[d], t)]_vars

\* C9: no task id is dispatched twice: 'tmux new-session' is run at most once
\* for a task id, whatever the submissions, dequeues, crashes and restarts.
C9_DispatchedOnce ==
    \A t \in TaskIds : dispatches[t] <= 1

\* C10: completion inference is first-match-wins on the log of an ended
\* session: when the monitor finalizes a running task whose session is gone
\* and whose log it can read, a log holding the task's success sentinel makes
\* the task completed, whatever else the log holds (keywords, the failure
\* sentinel); otherwise a log holding the task's failure sentinel makes it
\* failed.
C10_FirstMatchWins ==
    [][\A d \in Daemons, t \in TaskIds :
          (/\ MonitorTick(d)
           /\ tasks[d][t].status = "running"
           /\ ~session[t]
           /\ log[t].state = "ok"
           /\ Present(tasks'[d][t]))
              => /\ HasSuccess(log[t].lines, t)
                    => /\ tasks'[d][t].status = "completed"
                       /\ disk'[t].status = "completed"
                 /\ (~HasSuccess(log[t].lines, t) /\ HasFailure(log[t].lines, t))
                    => /\ tasks'[d][t].status = "failed"
                       /\ disk'[t].status = "failed"]_vars

\* C10 witness: a task was finalized as completed from a log that holds its
\* success sentinel together with its failure sentinel and a keyword.
C10_Witness ==
    \E d \in Daemons, t \in TaskIds :
        /\ tasks[d][t].status = "completed"
        /\ log[t].state = "ok"
        /\ HasSuccess(log[t].lines, t)
        /\ HasFailure(log[t].lines, t)
        /\ \E i \in 1..Len(log[t].lines) : HasKeyword(log[t].lines[i])

\* C11: for every terminal task, in the map and on disk, progress is 100 if
\* and only if the status is completed: a completed task has progress 100
\* whatever progress lines its log holds, and a failed task never has 100.
C11_ProgressHundredIffCompleted ==
    \A t \in TaskIds :
        /\ \A d \in Daemons :
              tasks[d][t].status \in Terminal
                  => (tasks[d][t].progress = 100 <=> tasks[d][t].status = "completed")
        /\ disk[t].status \in Terminal
                  => (disk[t].progress = 100 <=> disk[t].status = "completed")

\* The monitor finalizes task t of daemon d in this step: the task is
\* running, its session is gone, and the sweep that follows keeps it.
Finalizes(d, t) ==
    /\ MonitorTick(d)
    /\ tasks[d][t].status = "running"
    /\ ~session[t]
    /\ Present(tasks'[d][t])

\* C12: silence is never taken for success: when the monitor finalizes a
\* task whose log does not hold the task's success sentinel (the log is
\* missing, cannot be read, holds the failure sentinel or holds neither),
\* the task becomes failed, in the map and on disk; with a readable log
\* that holds neither sentinel the error message is 'Task ended without
\* completion marker'.
C12_SilenceIsFailure ==
    [][\A d \in Daemons, t \in TaskIds :
          (Finalizes(d, t) /\ ~(log[t].state = "ok" /\ HasSuccess(log[t].lines, t)))
              => /\ tasks'[d][t].status = "failed"
                 /\ disk'[t].status = "failed"
                 /\ (log[t].state = "ok" /\ ~HasFailure(log[t].lines, t))
                       => /\ tasks'[d][t].error_message =
                                 Msg("Task ended without completion marker")
                          /\ disk'[t].error_message =
                                 Msg("Task ended without completion marker")]_vars

\* C12 witness: a task was finalized as failed, without completion marker,
\* from a log with output and neither sentinel.
C12_Witness ==
    \E d \in Daemons, t \in TaskIds :
        /\ tasks[d][t].status = "failed"
        /\ tasks[d][t].error_message = Msg("Task ended without completion marker")
        /\ disk[t] = tasks[d][t]
        /\ log[t].state = "ok"
        /\ log[t].lines # << >>
        /\ ~HasSuccess(log[t].lines, t)
        /\ ~HasFailure(log[t].lines, t)

\* C13: when the monitor finalizes a task through the failure sentinel (its
\* log holds the task's failure sentinel and not its success sentinel), the
\* error message, in the map and on disk, is the text of the last log line
\* that holds one of the keywords error, failed, exception in any case, cut
\* to at most ErrorLimit characters.
C13_LastKeywordLine ==
    [][\A d \in Daemons, t \in TaskIds :
          (/\ Finalizes(d, t)
           /\ log[t].state = "ok"
           /\ ~HasSuccess(log[t].lines, t)
           /\ HasFailure(log[t].lines, t))
              => \E i \in 1..Len(log[t].lines) :
                    /\ HasKeyword(log[t].lines[i])
                    /\ \A j \in (i + 1)..Len(log[t].lines) : ~HasKeyword(log[t].lines[j])
                    /\ tasks'[d][t].error_message.s = log[t].lines[i].txt.s
                    /\ tasks'[d][t].error_message.n = Min(log[t].lines[i].txt.n, ErrorLimit)
                    /\ tasks'[d][t].error_message.n <= ErrorLimit
                    /\ disk'[t].error_message = tasks'[d][t].error_message]_vars

\* C13 witness: a task was finalized through the failure sentinel from a log
\* whose last keyword line, after the sentinel's line, is longer than
\* ErrorLimit; its message is that line cut to ErrorLimit characters.
C13_Witness ==
    \E d \in Daemons, t \in TaskIds :
        /\ tasks[d][t].status = "failed"
        /\ log[t].state = "ok"
        /\ log[t].lines = <<FailLine(t), LongErrLine>>
        /\ tasks[d][t].error_message = [s |-> LongErrLine.txt.s, n |-> ErrorLimit]
        /\ disk[t] = tasks[d][t]

\* C14: while a task is running with its session alive and under its
\* timeout, a monitor tick leaves the status running and sets the progress
\* to what the log's progress lines say (the last 'Progress: N%' line: 41
\* after 40 then 41), clamped to at most 99.
C14_ProgressWhileRunning ==
    [][\A d \in Daemons, t \in TaskIds :
          (/\ MonitorTick(d)
           /\ tasks[d][t].status = "running"
           /\ session[t]
           /\ ~TimedOut(tasks[d][t], t)
           /\ log[t].state = "ok")
              => /\ tasks'[d][t].status = "running"
                 /\ tasks'[d][t].progress =
                        Min(extract_progress_from_logs(tasks[d][t], log[t].lines).progress, 99)]_vars

\* The timeout the task is under: its own, else its tool's, else the default.
ClaimedTimeout(task) ==
    IF task.timeout # NoTimeout THEN task.timeout
    ELSE IF task.tool = "crush" THEN tool_timeout
    ELSE default_timeout

LockHolders == { d \in Daemons : phase[d] \in {"locked", "up", "stopping"} }

\* C17: singleton guard: whatever the interleaving of startups and
\* shutdowns against the workspace, at most one daemon process at a time
\* has passed acquire_lock and not yet released the lock (and so runs, or is
\* about to run, its workers and its monitor).
C17_SingleInstance ==
    Cardinality(LockHolders) <= 1

\* C18: create_task rejects a request whose tool or command is missing or
\* whose tool is not a key of the tool table: the call raises, and neither
\* that step nor the raise writes a record file, changes the map, puts
\* anything on the queue or uses up a task id.
C18_InvalidRejected ==
    [][\A d \in Daemons :
          /\ \A req \in Requests \cup TimedRequests :
                (/\ CreateTask(d, req)
                 /\ (req.tool = "None" \/ req.command = "None" \/ req.tool \notin ai_tools))
                    => /\ cpc'[d] = Rejected
                       /\ UNCHANGED <<disk, tasks, task_queue, next_id>>
          /\ (cpc'[d] # cpc[d] /\ (cpc[d] = Rejected \/ cpc'[d] = Rejected))
                => /\ UNCHANGED <<disk, next_id>>
                   /\ phase'[d] # "down" => UNCHANGED <<tasks, task_queue>>]_vars

\* C18 witness: a create_task call is raising while the daemon serves a
\* task it accepted before.
C18_Witness ==
    \E d \in Daemons, t \in TaskIds :
        /\ cpc[d] = Rejected
        /\ phase[d] = "up"
        /\ Present(tasks[d][t])
        /\ next_id \in TaskIds
        /\ ~Present(disk[next_id])
        /\ ~Present(tasks[d][next_id])
        /\ ~InQueue(task_queue[d], next_id)

\* The step in which a command of execute_task fails for worker w:
\* 'tmux new-session', or a 'tmux send-keys' (log setup, environment setup,
\* the invocation) after the session is gone.
SetupFails(d, w) ==
    \/ WorkerSession(d, w, FALSE)
    \/ WorkerSend(d, w) /\ ~session[wtask[d][w]]

\* C19: when execution setup fails at a step of execute_task, the task ends
\* failed with a non-empty error message and a completed_at, the record is
\* saved (and is the map's, while the map has the task), and the id is not
\* put back on the queue: neither by that step nor, once the record says
\* 'Failed to start', by any later step.
C19_SetupFailure ==
    [][\A d \in Daemons :
          /\ \A w \in Workers :
                SetupFails(d, w) =>
                    /\ disk'[wtask[d][w]].status = "failed"
                    /\ disk'[wtask[d][w]].error_message.n > 0
                    /\ disk'[wtask[d][w]].completed_at = now
                    /\ disk'[wtask[d][w]].completed_at # NoTime
                    /\ Present(tasks'[d][wtask[d][w]])
                          => tasks'[d][wtask[d][w]] = disk'[wtask[d][w]]
                    /\ task_queue'[d] = task_queue[d]
                    /\ wpc'[d][w] = "idle"
          /\ \A t \in TaskIds :
                (disk[t].status = "failed" /\ disk[t].error_message = Msg("Failed to start"))
                    => Occurrences(task_queue'[d], t) <= Occurrences(task_queue[d], t)]_vars

\* C19 witness: a task failed to start; its record says so in the map and on
\* disk, its worker is idle again and its id is on no queue.
C19_Witness ==
    \E d \in Daemons, t \in TaskIds :
        /\ phase[d] = "up"
        /\ disk[t].status = "failed"
        /\ disk[t].error_message = Msg("Failed to start")
        /\ disk[t].completed_at # NoTime
        /\ tasks[d][t] = disk[t]
        /\ \A w \in Workers : wpc[d][w] = "idle"
        /\ ~InQueue(task_queue[d], t)

\* C20: a worker re-validates a dequeued id before acting: it goes on to
\* dispatch (status running, then the session) only when the map has the
\* task and its status is still queued; otherwise the id is dropped and the
\* step changes no record, in the map or on disk, and starts no dispatch.
C20_WorkerRevalidates ==
    [][\A d \in Daemons, w \in Workers :
          (WorkerDequeue(d, w) /\ tasks[d][Head(task_queue[d])].status # "queued")
              => /\ UNCHANGED <<tasks, disk, session, dispatches>>
                 /\ wpc'[d][w] = "idle"]_vars

ValidRequests == { req \in Requests : validate_task(NewTask(req)) }

FilesNext ==
    \/ StartOpen(Primary)
    \/ StartLock(Primary)
    \/ StartLoad(Primary)
    \/ Shutdown(Primary)
    \/ ReleaseUnlock(Primary)
    \/ ReleaseUnlink(Primary)
    \/ Crash(Primary)
    \/ \E req \in ValidRequests : CreateTask(Primary, req)
    \/ CreateEnqueue(Primary)
    \/ \E req \in ValidRequests : CliSaveOpen(req)
    \/ \E t \in TaskIds : CliSaveDump(t)
    \/ \E req \in ValidRequests : ForeignRecord(req)
    \/ \E t \in TaskIds : KillTask(Primary, t)
    \/ \E w \in Workers : WorkerDequeue(Primary, w)
    \/ \E w \in Workers, ok \in BOOLEAN : WorkerSession(Primary, w, ok)
    \/ \E w \in Workers : WorkerSend(Primary, w)
    \/ MonitorTick(Primary)
    \/ \E t \in TaskIds : SessionDies(t)

SpecFiles == Init /\ [][FilesNext]_vars

QueueNext ==
    \/ StartOpen(Primary)
    \/ StartLock(Primary)
    \/ StartLoad(Primary)
    \/ Shutdown(Primary)
    \/ ReleaseUnlock(Primary)
    \/ ReleaseUnlink(Primary)
    \/ Crash(Primary)
    \/ \E req \in PriorityRequests : CreateTask(Primary, req)
    \/ CreateEnqueue(Primary)
    \/ \E req \in PriorityRequests : CliCreateTask(req)
    \/ \E w \in Workers : WorkerDequeue(Primary, w)
    \/ \E w \in Workers, ok \in BOOLEAN : WorkerSession(Primary, w, ok)
    \/ \E w \in Workers : WorkerSend(Primary, w)
    \/ MonitorTick(Primary)
    \/ \E t \in TaskIds : SessionDies(t)

SpecQueue == Init /\ [][QueueNext]_vars

LiveNext ==
    \/ StartOpen(Primary)
    \/ StartLock(Primary)
    \/ StartLoad(Primary)
    \/ \E req \in ValidRequests : CreateTask(Primary, req)
    \/ CreateEnqueue(Primary)
    \/ \E req \in ValidRequests : CliCreateTask(req)
    \/ \E w \in Workers : WorkerDequeue(Primary, w)
    \/ \E w \in Workers, ok \in BOOLEAN : WorkerSession(Primary, w, ok)
    \/ \E w \in Workers : WorkerSend(Primary, w)
    \/ MonitorTick(Primary)
    \/ \E t \in TaskIds : SessionDies(t)

Fairness ==
    /\ WF_vars(StartOpen(Primary))
    /\ WF_vars(StartLock(Primary))
    /\ WF_vars(StartLoad(Primary))
    /\ WF_vars(CreateEnqueue(Primary))
    /\ \A w \in Workers : WF_vars(WorkerDequeue(Primary, w))
    /\ \A w \in Workers : WF_vars(\E ok \in BOOLEAN : WorkerSession(Primary, w, ok))
    /\ \A w \in Workers : WF_vars(WorkerSend(Primary, w))
    /\ WF_vars(MonitorTick(Primary))

SpecLive == Init /\ [][LiveNext]_vars /\ Fairness

\* Daemons that are started, serve tasks and are stopped by a signal.
SignalNext ==
    \/ \E d \in Daemons : StartOpen(d)
    \/ \E d \in Daemons : StartLock(d)
    \/ \E d \in Daemons : StartLoad(d)
    \/ \E d \in Daemons : Shutdown(d)
    \/ \E d \in Daemons : ReleaseUnlock(d)
    \/ \E d \in Daemons : ReleaseUnlinkReturn(d)
    \/ \E d \in Daemons : ShutdownAgain(d)
    \/ \E d \in Daemons : UncaughtExit(d)
    \/ \E req \in ValidRequests : next_id = 1 /\ CliCreateTask(req)
    \/ \E d \in Daemons, w \in Workers : WorkerDequeue(d, w)
    \/ \E d \in Daemons, w \in Workers, ok \in BOOLEAN : WorkerSession(d, w, ok)
    \/ \E d \in Daemons, w \in Workers : WorkerSend(d, w)
    \/ \E d \in Daemons : MonitorTick(d)

SpecSignal == Init /\ [][SignalNext]_vars

\* Worker w of daemon d is inside execute_task on task t.
Executing(d, w, t) == wtask[d][w] = t /\ wpc[d][w] # "idle"

\* C21: a worker's execute_task on a task and the monitor's check of the
\* same task behave as one critical section per task id: a monitor pass
\* leaves alone the record, in the map and on disk, of a task a worker is
\* inside execute_task on, and when execute_task returns after sending the
\* invocation the record is the one of its own transition: running.
C21_CriticalSection ==
    [][\A d \in Daemons, w \in Workers, t \in TaskIds :
          /\ (MonitorTick(d) /\ Executing(d, w, t))
                => (tasks'[d][t] = tasks[d][t] /\ disk'[t] = disk[t])
          /\ (WorkerSend(d, w) /\ Executing(d, w, t) /\ session[t]
                /\ Present(tasks[d][t]))
                => tasks'[d][t].status = "running"]_vars

\* C22: save_task persists a record atomically: a reader of the record
\* files (load_tasks of a starting daemon) never finds a record file empty
\* or partly written.
C22_AtomicSave ==
    [][\A d \in Daemons :
          StartLoad(d) => \A t \in TaskIds : disk[t].status # "unparsable"]_vars

\* A record file load_tasks is claimed to skip.
Damaged(task) == task.status \in {"unparsable", "nostatus"}

\* C23: load_tasks tolerates damaged record files: a file that does not
\* parse or lacks a required field is skipped (it is neither in the map nor
\* on the queue), every other record is loaded and recovered as usual, and
\* the startup goes on.
C23_LoadSkipsDamaged ==
    [][\A d \in Daemons :
          StartLoad(d) =>
              /\ phase'[d] = "up"
              /\ \A t \in TaskIds :
                    IF Damaged(disk[t])
                    THEN /\ tasks'[d][t] = Absent
                         /\ ~InQueue(task_queue'[d], t)
                    ELSE /\ tasks'[d][t] = Recovered(disk[t], t)
                         /\ disk[t].status = "queued" => InQueue(task_queue'[d], t)]_vars

\* No operation is in the middle of a step: no create_task call and no
\* execute_task call is under way in any process.
AtRest ==
    \A d \in Daemons :
        /\ cpc[d] = 0
        /\ \A w \in Workers : wpc[d][w] = "idle"

\* C24: the in-memory map is a cache of the disk: whenever no operation is
\* in the middle of a step, every task in a daemon's map has a record file
\* with the same status, timestamps, progress and error message.
C24_MapMirrorsDisk ==
    \A d \in Daemons, t \in TaskIds :
        (AtRest /\ phase[d] = "up" /\ Present(tasks[d][t])) =>
            /\ disk[t].status = tasks[d][t].status
            /\ disk[t].started_at = tasks[d][t].started_at
            /\ disk[t].completed_at = tasks[d][t].completed_at
            /\ disk[t].progress = tasks[d][t].progress
            /\ disk[t].error_message = tasks[d][t].error_message

\* C25: task-level failures are local: a failure while dispatching,
\* checking, finalizing or killing one task leaves the loops going.  A
\* worker whose execute_task failed is back at the queue, and every pass
\* of the monitor checks every running task, whatever it met at another
\* task: a running task whose session is gone is finalized by the pass
\* (and no longer running after it).
C25_FailuresAreLocal ==
    [][\A d \in Daemons :
          /\ \A w \in Workers :
                SetupFails(d, w) => wpc'[d][w] = "idle"
          /\ MonitorTick(d) =>
                \A t \in TaskIds :
                    (tasks[d][t].status = "running" /\ ~session[t])
                        => tasks'[d][t].status # "running"]_vars

\* C26: the lock is released only after the in-flight work has drained:
\* once a daemon has released its lock, none of its worker and monitor
\* threads dispatches, finalizes or otherwise changes a task record.
C26_DrainedBeforeRelease ==
    [][\A d \in Daemons :
          (phase[d] = "released" /\ phase'[d] = "released")
              => /\ tasks'[d] = tasks[d]
                 /\ wpc'[d] = wpc[d]]_vars

\* C27: error_message is set only on failed tasks: a queued, running or
\* completed task, in a map or on disk, has no error message.
C27_ErrorOnlyOnFailed ==
    /\ \A t \in TaskIds :
          disk[t].status \in {"queued", "running", "completed"}
              => disk[t].error_message = NoMsg
    /\ \A d \in Daemons, t \in TaskIds :
          tasks[d][t].status \in {"queued", "running", "completed"}
              => tasks[d][t].error_message = NoMsg

\* C28: progress is an integer between 0 and 100 whatever numbers the log
\* holds ('Progress: 250%', 'Processing 7 of 5').
C28_ProgressInRange ==
    /\ \A t \in TaskIds : disk[t].progress \in 0..100
    /\ \A d \in Daemons, t \in TaskIds : tasks[d][t].progress \in 0..100

\* C29: dispatch is first in, first out, whatever the priorities: while a
\* daemon runs, an id enters its queue at the end and nowhere else, the
\* ids waiting keep their order, and the id a worker dispatches is the one
\* that has waited longest, the head of the queue.
C29_FifoDispatch ==
    [][\A d \in Daemons :
          (phase[d] \notin {"down", "locked"} /\ phase'[d] # "down") =>
              LET q == task_queue[d]
                  r == task_queue'[d]
              IN  /\ \/ r = q
                     \/ \E t \in TaskIds : r = Append(q, t)
                     \/ q # << >> /\ r = Tail(q)
                  /\ \A w \in Workers :
                        (wtask'[d][w] # wtask[d][w] /\ wtask'[d][w] # 0)
                            => /\ q # << >>
                               /\ wtask'[d][w] = Head(q)
                               /\ r = Tail(q)]_vars

\* A task of low priority is being run while a task of high priority,
\* submitted after it, waits in the queue.
C29_Witness ==
    \E d \in Daemons, w \in Workers, t, u \in TaskIds :
        /\ t < u
        /\ wtask[d][w] = t
        /\ tasks[d][t].priority = "low"
        /\ tasks[d][t].status = "running"
        /\ dispatches[t] > 0
        /\ InQueue(task_queue[d], u)
        /\ tasks[d][u].priority = "high"
        /\ cpc[d] = 0

\* C30: every task create_task has accepted (its record is saved with
\* status queued) is in the end dequeued by a worker of the running daemon
\* and leaves the queued state, a task submitted through the
\* 'create-task' command while the daemon runs included.
C30_EventuallyDequeued ==
    \A t \in TaskIds :
        (disk[t].status = "queued") ~> (disk[t].status # "queued")

\* The invocation of task t has exited successfully: the marker step has
\* written the success sentinel of this dispatch to the log.
ExitedSuccessfully(t) ==
    /\ sent[t] # NoTime
    /\ log[t].state = "ok"
    /\ \E i \in 1..Len(log[t].lines) : log[t].lines[i] = OkLine(t, sent[t])

\* C31: a running task whose invocation has exited successfully is
\* recorded completed by the monitor: no pass of the monitor turns it into
\* failed, by the timeout path or any other.
C31_SuccessIsCompleted ==
    [][\A d \in Daemons, t \in TaskIds :
          (MonitorTick(d) /\ tasks[d][t].status = "running" /\ ExitedSuccessfully(t))
              => tasks'[d][t].status # "failed"]_vars

\* C32: bounded response of the monitor: a task that is running with its
\* session not alive when a pass of the monitor starts is, when the pass
\* ends, in a terminal state with completed_at set and its record saved,
\* whatever the log holds and even if the log cannot be read.
C32_FinalizedWithinTick ==
    [][\A d \in Daemons, t \in TaskIds :
          (MonitorTick(d) /\ tasks[d][t].status = "running" /\ ~session[t])
              => /\ tasks'[d][t].status \in Terminal
                 /\ tasks'[d][t].completed_at # NoTime
                 /\ disk'[t] = tasks'[d][t]]_vars

\* Worker w of daemon d returns from execute_task having sent everything.
Dispatched(d, w) == WorkerSend(d, w) /\ session[wtask[d][w]]

\* The lines the claimed order puts into a fresh session: log capture, the
\* tool's env_setup steps in their configured order, and only then the
\* invocation, in the line that carries the marker step.
ClaimedKeys(task) ==
    log_setup_commands
        \o env_setup(task.tool)
        \o << Key(build_task_command(task) \o " && echo COMPLETED || echo FAILED",
                  TRUE, TRUE) >>

\* C33: execute_task drives the session in a fixed order: the stale
\* session is killed and a fresh one created (nothing is typed in it yet),
\* then log capture is set up, the env_setup steps are sent in order, and
\* only then the invocation, with the marker step that gates the
\* sentinels on its exit status.
C33_SessionOrder ==
    [][\A d \in Daemons, w \in Workers :
          /\ WorkerSession(d, w, TRUE) => typed'[wtask[d][w]] = << >>
          /\ Dispatched(d, w) =>
                typed'[wtask[d][w]] = ClaimedKeys(WorkerRecord(d, w))]_vars

\* C36: one dispatch runs the tool once: of the lines a successful
\* execute_task has typed into the session, exactly one runs the tool's
\* invocation.
C36_InvokedOnce ==
    [][\A d \in Daemons, w \in Workers :
          Dispatched(d, w) =>
              Cardinality({ i \in 1..Len(typed'[wtask[d][w]]) :
                              typed'[wtask[d][w]][i].invokes }) = 1]_vars

\* The progress the claimed extraction finds in a log: the last
\* 'Progress: N%', else the last 'N% complete', else floor(100 * X / Y) of
\* the last 'Processing ... X of Y'; 'none' (NoNum) when nothing matches or
\* Y is 0.
ClaimedProgress(lines) ==
    LET m1 == { i \in 1..Len(lines) : lines[i].p1 # NoNum }
        m2 == { i \in 1..Len(lines) : lines[i].p2 # NoNum }
        m3 == { i \in 1..Len(lines) : lines[i].cur # NoNum /\ lines[i].tot # NoNum }
    IN  IF m1 # {} THEN lines[LastIndex(m1)].p1
        ELSE IF m2 # {} THEN lines[LastIndex(m2)].p2
        ELSE IF m3 # {} /\ lines[LastIndex(m3)].tot # 0
             THEN (100 * lines[LastIndex(m3)].cur) \div lines[LastIndex(m3)].tot
        ELSE NoNum

\* C34: progress extraction has a fixed priority: the last 'Progress: N%',
\* else the last 'N% complete', else the last 'Processing ... X of Y' as
\* floor(100 * X / Y); when nothing matches, or Y is 0, progress is left as
\* it was (as the status branch of the finalization set it).
C34_ProgressPriority ==
    [][\A d \in Daemons, t \in TaskIds :
          (Finalizes(d, t) /\ log[t].state = "ok") =>
              tasks'[d][t].progress =
                  IF ClaimedProgress(log[t].lines) # NoNum
                  THEN ClaimedProgress(log[t].lines)
                  ELSE IF tasks'[d][t].status = "completed" THEN 100
                  ELSE tasks[d][t].progress]_vars

\* C35: no orphan sessions: a task whose record, in a map or on disk, is
\* completed or failed has no live session, and no dispatch that is under
\* way is about to create one.
C35_NoOrphanSession ==
    \A t \in TaskIds :
        (\/ disk[t].status \in Terminal
         \/ \E d \in Daemons : tasks[d][t].status \in Terminal)
            => /\ ~session[t]
               /\ \A d \in Daemons, w \in Workers :
                     ~(wtask[d][w] = t /\ wpc[d][w] = "session")

\* C37: every failed task, in a map or on disk, has a non-empty
\* error_message, whichever path made it failed: restart recovery, setup
\* failure, failure sentinel, missing sentinel, missing log, finalization
\* error, kill or timeout.
C37_FailedHasMessage ==
    /\ \A t \in TaskIds :
          disk[t].status = "failed" => disk[t].error_message.n > 0
    /\ \A d \in Daemons, t \in TaskIds :
          tasks[d][t].status = "failed" => tasks[d][t].error_message.n > 0

\* A task was finalized as failed from a log whose only line with a
\* keyword is the failure sentinel: its error message is that line.
C37_Witness ==
    \E t \in TaskIds :
        /\ disk[t].status = "failed"
        /\ log[t].state = "ok"
        /\ Len(log[t].lines) > 0
        /\ \A i \in 1..Len(log[t].lines) : log[t].lines[i] = FailLine(t)
        /\ disk[t].error_message = FailLine(t).txt

\* C38: while a daemon process holds the lock, the lock file exists at the
\* lock path, is the file the process locked, and contains that process's
\* pid, whatever other instances try to start meanwhile; so 'stop' can read
\* the pid of the running daemon from it.
C38_LockFileNamesHolder ==
    \A d \in Daemons :
        (phase[d] \in {"locked", "up", "stopping"} /\ inode_lock[lock_fd[d]] = d)
            => /\ lock_path = lock_fd[d]
               /\ inode_pid[lock_path] = d

\* C39: a shutdown driven by a signal is clean: once the first shutdown()
\* has released the lock (unlocked, closed, unlinked), the later call of
\* shutdown() and release_lock() is a no-op: it raises no error, touches no
\* lock file, and the process just ends.
C39_CleanSignalShutdown ==
    [][\A d \in Daemons :
          (phase[d] = "exiting" /\ phase'[d] # "exiting")
              => /\ phase'[d] # "raised"
                 /\ UNCHANGED lockvars]_vars

=============================================================================
